---- MODULE Spec2Model ----
(***************************************************************************)
(* Model of the patch pipeline of src-tauri/src/patcher.rs:                *)
(* get_changed_paths, download_changed_paths, move_changed_paths,          *)
(* patch_internal, patch, set_etag, send_event and send_error.             *)
(*                                                                         *)
(* Text (manifest lines, paths, digests, etags) is a sequence of           *)
(* one-token strings.  A file system location is a sequence of path        *)
(* components relative to game_folder; a component is a token sequence.    *)
(* File content is a sequence of body chunks (or of tokens for the marker).*)
(***************************************************************************)
EXTENDS Integers, Sequences, FiniteSets, TLC

(* ------------------------------ bounds -------------------------------- *)

\* longest manifest (in lines) the model explores
MaxLines == 2

\* most injected environment failures (I/O or network) in one run
MaxFaults == 1

(* ------------------------------ text ---------------------------------- *)

TAB == "\t"

SLASH == "/"

\* const ETAG_FILE: &str = "patcher.etag"
ETAG_FILE == <<"patcher.etag">>

\* game_folder.join("tmp") : the staging directory's name
TMP_NAME == <<"tmp">>

\* game_folder itself, the root every location is relative to
GameFolder == <<>>

\* tmp_folder = game_folder.join("tmp")
TmpFolder == GameFolder \o <<TMP_NAME>>

RECURSIVE IndexOfFrom(_, _, _)
\* first index >= i of token c in s, 0 if there is none
IndexOfFrom(s, c, i) ==
    IF i > Len(s) THEN 0
    ELSE IF s[i] = c THEN i
    ELSE IndexOfFrom(s, c, i + 1)

\* str::split_once('\t'): <<>> for None, else <<before, after>> of the FIRST delimiter
SplitOnce(line, c) ==
    LET i == IndexOfFrom(line, c, 1)
    IN  IF i = 0 THEN <<>>
        ELSE <<SubSeq(line, 1, i - 1), SubSeq(line, i + 1, Len(line))>>

\* the slip of using the manifest's path as it stands
TrimNothing(s, c) == s

RECURSIVE TrimStartMatches(_, _)
\* str::trim_start_matches('/'): strips EVERY leading occurrence
TrimStartMatches(s, c) ==
    IF s # <<>> /\ Head(s) = c THEN TrimStartMatches(Tail(s), c) ELSE s

RECURSIVE Components(_)
\* the components Path::join appends for a relative path: split on '/',
\* empty components dropped
Components(p) ==
    IF p = <<>> THEN <<>>
    ELSE LET i == IndexOfFrom(p, SLASH, 1)
         IN  IF i = 0 THEN <<p>>
             ELSE IF i = 1 THEN Components(Tail(p))
             ELSE <<SubSeq(p, 1, i - 1)>> \o Components(SubSeq(p, i + 1, Len(p)))

\* the parent-directory component
DOTDOT == ".."

\* locations: sequences of components, each a sequence of tokens
Location == Seq(Seq(STRING))

\* the location the operating system reaches for the components rest after
\* done: a ".." component steps to the parent directory; above game_folder
\* the ".." stays, so that such a location is outside the game folder
Resolve[done \in Location, rest \in Location] ==
    IF rest = <<>> THEN done
    ELSE IF /\ Head(rest) = <<DOTDOT>>
            /\ done # <<>>
            /\ done[Len(done)] # <<DOTDOT>>
         THEN Resolve[SubSeq(done, 1, Len(done) - 1), Tail(rest)]
    ELSE Resolve[Append(done, Head(rest)), Tail(rest)]

\* Path::join for a path that does not start with '/', as the location the
\* file operations on the joined path reach (join itself keeps "..")
Join(folder, p) == Resolve[<<>>, folder \o Components(p)]

\* is location l inside directory d (strictly below it)
Under(l, d) == Len(l) > Len(d) /\ SubSeq(l, 1, Len(d)) = d

(* ----------------------------- digests -------------------------------- *)

HexDigits == <<"0", "1", "2", "3", "4", "5", "6", "7", "8", "9",
               "a", "b", "c", "d", "e", "f">>

RECURSIVE Sha256(_)
\* the digest of a file's bytes as a number; injective on the contents the
\* model uses (collision resistance), chunk k contributing the digit 10 + k
Sha256(content) ==
    IF content = <<>> THEN 0
    ELSE Sha256(SubSeq(content, 1, Len(content) - 1)) * 16
             + 10 + content[Len(content)]

RECURSIVE LowerHex(_)
\* format!("{:x}", ..): lower-case hexadecimal digits, most significant first
LowerHex(n) ==
    IF n < 16 THEN <<HexDigits[n + 1]>>
    ELSE LowerHex(n \div 16) \o <<HexDigits[(n % 16) + 1]>>

(* ------------------------- get_changed_paths -------------------------- *)

\* fs::File::open + io::copy into the hasher both succeed
Readable(fs0, unread, loc) == loc \in DOMAIN fs0 /\ loc \notin unread

\* the filter_map closure on one line: "err" for Some(Err), "skip" for None,
\* else the path of Some(Ok(patcher_path))
LineVerdict(line, fs0, unread) ==
    LET parts == SplitOnce(line, TAB)
    IN  IF parts = <<>> THEN [kind |-> "err", path |-> <<>>]
        ELSE LET patcher_hash == parts[1]
                 patcher_path == TrimStartMatches(parts[2], SLASH)
                 client_path  == Join(GameFolder, patcher_path)
             IN  IF /\ Readable(fs0, unread, client_path)
                    /\ patcher_hash = LowerHex(Sha256(fs0[client_path]))
                 THEN [kind |-> "skip", path |-> patcher_path]
                 ELSE [kind |-> "keep", path |-> patcher_path]

RECURSIVE TryCollect(_, _, _, _)
\* try_collect over the lazy filter_map: stops at the first Err
TryCollect(lines, fs0, unread, acc) ==
    IF lines = <<>> THEN [ok |-> TRUE, paths |-> acc]
    ELSE LET v == LineVerdict(Head(lines), fs0, unread)
         IN  IF v.kind = "err" THEN [ok |-> FALSE, paths |-> <<>>]
             ELSE TryCollect(Tail(lines), fs0, unread,
                             IF v.kind = "keep" THEN Append(acc, v.path) ELSE acc)

\* get_changed_paths(patcher_content, game_folder); the argument is
\* patcher_content.lines()
GetChangedPaths(lines, fs0, unread) == TryCollect(lines, fs0, unread, <<>>)

(* --------------------------- the remote end --------------------------- *)

\* the body GET {patcher_url}/{changed_path} serves, as its chunks
Served(p) ==
    CASE p = <<"a">> -> <<1, 2>>
      [] p = <<"b">> -> <<3>>
      [] p = <<"tmp", SLASH, "a">> -> <<4>>
      [] OTHER -> <<5>>

\* the body of a response with a non-success status (an error page)
ErrorBody == <<0>>

\* the etag the server sends with a manifest: the model pairs one etag with
\* each manifest length, so that an empty etag, one shorter and one longer than
\* the marker of an earlier run all occur
EtagOf(m) ==
    CASE m = <<>> -> <<>>
      [] Len(m) = 1 -> <<"v", "2">>
      [] OTHER -> <<"v", "2", "y", "z">>

\* a marker left by an earlier run (longer than NewEtag)
OldEtag == <<"v", "1", "x">>

(* ------------------------------ inputs -------------------------------- *)

LineSet ==
    { <<"b", "c", TAB, "a">>,
      <<"B", "C", TAB, "a">>,
      <<"b", "c", TAB, SLASH, "a">>,
      <<"d", TAB, "b">>,
      <<"e", TAB, "tmp", SLASH, "a">>,
      <<"d", TAB, DOTDOT, SLASH, "b">>,
      <<"b", "c", TAB, "a", TAB, "b">>,
      <<"b", "c", "a">> }

RECURSIVE SeqsUpTo(_, _)
SeqsUpTo(S, n) ==
    IF n = 0 THEN {<<>>}
    ELSE LET shorter == SeqsUpTo(S, n - 1)
         IN  shorter \cup {Append(s, x) : s \in shorter, x \in S}

Manifests == SeqsUpTo(LineSet, MaxLines)

LocA == <<<<"a">>>>

LocB == <<<<"b">>>>

LocTmpA == <<TMP_NAME, <<"a">>>>

LocEtag == Join(GameFolder, ETAG_FILE)

\* local trees a run can start from: never patched; up to date in part;
\* out of date; with a left-over directory named like the staging directory
LocalTrees ==
    { << >>,
      (LocA :> <<1, 2>>) @@ (LocEtag :> OldEtag),
      (LocA :> <<1>>) @@ (LocB :> <<3>>) @@ (LocEtag :> OldEtag),
      (LocA :> <<1>>) @@ (LocTmpA :> <<0>>) @@ (LocEtag :> OldEtag),
      (LocA :> <<1, 2>>) @@ (LocB :> <<3>>) @@ (LocTmpA :> <<4>>)
          @@ (LocEtag :> OldEtag) }

(* ------------------------------- state -------------------------------- *)

VARIABLES
    manifest,       \* patcher_resp.content.lines()
    fs,             \* files below game_folder: location -> content
    tmpDir,         \* the directory game_folder/tmp exists
    cancelled,      \* the CancellationToken has been cancelled
    pc,             \* position of patch() / patch_internal()
    events,         \* PatcherEvents emitted on "patcher", in order
    logs,           \* messages emitted on "log" by send_error
    err,            \* the Err(..) patch_internal is returning
    changed,        \* changed_paths
    idx,            \* position of the download loop in changed_paths (1-based)
    current,        \* download_changed_paths' counter
    body,           \* chunks of the response not read yet
    mvIdx,          \* position of the move loop in changed_paths (1-based)
    faults,         \* injected environment failures so far
    unreadable,     \* locations whose open/read failed during diffing
    partial,        \* files opened for a download whose body has not ended
    requested,      \* paths whose request got a response or a network error
    observed,       \* where the downloader saw the cancellation, or "none"
    obsAt,          \* Len(events) when it did
    created,        \* create_dir_all(tmp_folder) succeeded
    removeAttempts, \* calls of remove_dir_all(tmp_folder)
    evAtRemove,     \* Len(events) at that call
    etagCalls,      \* calls of set_etag
    refused,        \* entries (by index) answered with a non-success status
    fs0             \* the tree the run started from

vars == <<manifest, fs, tmpDir, cancelled, pc, events, logs, err, changed, idx,
          current, body, mvIdx, faults, unreadable, partial, requested,
          observed, obsAt, created, removeAttempts, evAtRemove, etagCalls,
          refused, fs0>>

\* patcher_resp.etag of the manifest being installed
NewEtag == EtagOf(manifest)

\* struct PatcherEvent { total, current, state }
PatcherEvent(total, cur, state) ==
    [total |-> total, current |-> cur, state |-> state]

\* send_event(window, total, current, state)
SendEvent(evs, total, cur, state) == Append(evs, PatcherEvent(total, cur, state))

\* send_error(window, msg): the event half
SendErrorEvent(evs) == Append(evs, PatcherEvent(0, 0, "Error"))

Init ==
    /\ manifest \in Manifests
    /\ fs \in LocalTrees
    /\ tmpDir = (\E l \in DOMAIN fs : Under(l, TmpFolder))
    /\ cancelled = FALSE
    /\ pc = "start"
    /\ events = <<>>
    /\ logs = <<>>
    /\ err = ""
    /\ changed = <<>>
    /\ idx = 1
    /\ current = 0
    /\ body = <<>>
    /\ mvIdx = 1
    /\ faults = 0
    /\ unreadable = {}
    /\ partial = {}
    /\ requested = <<>>
    /\ observed = "none"
    /\ obsAt = 0
    /\ created = FALSE
    /\ removeAttempts = 0
    /\ evAtRemove = 0
    /\ etagCalls = 0
    /\ refused = {}
    /\ fs0 = fs

\* an environment failure may still be injected
MayFail == faults < MaxFaults

dlVars == <<changed, idx, current, body, mvIdx>>

ghostVars == <<unreadable, partial, requested, observed, obsAt, created,
               removeAttempts, evAtRemove, etagCalls, refused, fs0>>

\* CancellationToken::cancel() by the caller, at any time during the run
Cancel ==
    /\ pc # "returned"
    /\ ~cancelled
    /\ cancelled' = TRUE
    /\ UNCHANGED <<manifest, fs, tmpDir, pc, events, logs, err, dlVars, faults,
                   ghostVars>>

\* the slip of a missing return after the report of the failure
CreateStagingNoReturn ==
    /\ pc = "start"
    /\ \/ /\ tmpDir' = TRUE
          /\ created' = TRUE
          /\ pc' = "internal"
          /\ UNCHANGED <<events, logs, faults>>
       \/ /\ faults < MaxFaults
          /\ faults' = faults + 1
          /\ logs' = Append(logs, "Failed to create temp patcher directory")
          /\ events' = Append(events, [total |-> 0, current |-> 0, state |-> "Error"])
          /\ pc' = "internal"
          /\ UNCHANGED <<tmpDir, created>>
    /\ UNCHANGED <<manifest, fs, cancelled, err, changed, idx, current, body,
                   mvIdx, unreadable, partial, requested, observed, obsAt,
                   removeAttempts, evAtRemove, etagCalls, refused, fs0>>

\* patch(), lines 208-213
CreateStaging ==
    /\ pc = "start"
    /\ \/ /\ tmpDir' = TRUE
          /\ created' = TRUE
          /\ pc' = "internal"
          /\ UNCHANGED <<events, logs, faults>>
       \/ /\ MayFail
          /\ faults' = faults + 1
          /\ logs' = Append(logs, "Failed to create temp patcher directory")
          /\ events' = SendErrorEvent(events)
          /\ pc' = "returned"
          /\ UNCHANGED <<tmpDir, created>>
    /\ UNCHANGED <<manifest, fs, cancelled, err, dlVars, unreadable, partial,
                   requested, observed, obsAt, removeAttempts, evAtRemove,
                   etagCalls, refused, fs0>>

\* patch_internal(), line 177
SendChecking ==
    /\ pc = "internal"
    /\ events' = SendEvent(events, 0, 0, "Checking")
    /\ pc' = "checking"
    /\ UNCHANGED <<manifest, fs, tmpDir, cancelled, logs, err, dlVars, faults,
                   ghostVars>>

\* the sets of locations whose read may fail while diffing
ReadFailures == {{}} \cup {{l} : l \in DOMAIN fs}

\* patch_internal(), lines 179-180
Diff ==
    /\ pc = "checking"
    /\ \E u \in ReadFailures :
         /\ u # {} => MayFail
         /\ faults' = IF u = {} THEN faults ELSE faults + 1
         /\ unreadable' = u
         /\ LET r == GetChangedPaths(manifest, fs, u)
            IN  IF r.ok
                THEN /\ changed' = r.paths
                     /\ events' = SendEvent(events, Len(r.paths), 0, "Downloading")
                     /\ pc' = IF r.paths = <<>> THEN "dl_ok" ELSE "dl_send"
                     /\ err' = err
                ELSE /\ err' = "Failed to parse patcher server response"
                     /\ pc' = "failed"
                     /\ UNCHANGED <<changed, events>>
    /\ UNCHANGED <<manifest, fs, tmpDir, cancelled, logs, idx, current, body,
                   mvIdx, partial, requested, observed, obsAt, created,
                   removeAttempts, evAtRemove, etagCalls, refused, fs0>>

\* the Err(msg)? of a fallible call: patch_internal returns it
Fail(msg) ==
    /\ MayFail
    /\ faults' = faults + 1
    /\ err' = msg
    /\ pc' = "failed"

\* where the download loop goes after entry i
AfterEntry(i) == IF i >= Len(changed) THEN "dl_ok" ELSE "dl_send"

\* the file a download opens: write, truncate, create
OpenTruncate(f, loc) == (loc :> <<>>) @@ f

\* file.write_all(chunk)
WriteAll(f, loc, chunk) == [f EXCEPT ![loc] = Append(@, chunk)]

\* the slip of going on with the loop when the cancellation is seen
RetryOnCancel == "dl_send"

\* `_ = cancel.cancelled() => return Ok(())` (lines 119 and 136): the
\* downloader is left, normally
ReturnOnCancel == "dl_ok"

\* download_changed_paths(), lines 114-134: request one entry, open its file
DlSend ==
    /\ pc = "dl_send"
    /\ LET changed_path == changed[idx]
           patcher_path == Join(TmpFolder, changed_path)
       IN  \/ \* select!: cancel.cancelled() => return Ok(())
              /\ cancelled
              /\ observed' = "send"
              /\ obsAt' = Len(events)
              /\ pc' = ReturnOnCancel
              /\ UNCHANGED <<fs, err, body, faults, partial, requested, refused>>
           \/ /\ Fail("Patch server request failed")
              /\ requested' = Append(requested, changed_path)
              /\ UNCHANGED <<fs, body, partial, observed, obsAt, refused>>
           \/ /\ requested' = Append(requested, changed_path)
              /\ \/ /\ Fail("Failed to create temp file parent")
                    /\ UNCHANGED <<fs, body, partial>>
                 \/ /\ Fail("Failed to open temp file")
                    /\ UNCHANGED <<fs, body, partial>>
                 \/ /\ fs' = OpenTruncate(fs, patcher_path)
                    /\ partial' = partial \cup {patcher_path}
                    /\ body' = Served(changed_path)
                    /\ pc' = "dl_chunk"
                    /\ UNCHANGED <<err, faults>>
              /\ UNCHANGED <<observed, obsAt, refused>>
           \/ \* the response has a non-success status: send() is Ok all the
              \* same, and nothing looks at the status
              /\ MayFail
              /\ faults' = faults + 1
              /\ refused' = refused \cup {idx}
              /\ requested' = Append(requested, changed_path)
              /\ fs' = OpenTruncate(fs, patcher_path)
              /\ partial' = partial \cup {patcher_path}
              /\ body' = ErrorBody
              /\ pc' = "dl_chunk"
              /\ UNCHANGED <<err, observed, obsAt>>
    /\ UNCHANGED <<manifest, tmpDir, cancelled, events, logs, changed, idx,
                   current, mvIdx, unreadable, created, removeAttempts,
                   evAtRemove, etagCalls, fs0>>

\* the slip of never counting a finished file
AdvanceNot(n) == n

\* current += 1 (line 142)
Advance(n) == n + 1

\* download_changed_paths(), lines 135-143: one pass of the chunk loop
DlChunk ==
    /\ pc = "dl_chunk"
    /\ LET changed_path == changed[idx]
           patcher_path == Join(TmpFolder, changed_path)
           total == Len(changed)
       IN  \/ \* select!: cancel.cancelled() => return Ok(())
              /\ cancelled
              /\ observed' = "chunk"
              /\ obsAt' = Len(events)
              /\ pc' = ReturnOnCancel
              /\ UNCHANGED <<fs, events, err, idx, current, body, faults, partial>>
           \/ /\ Fail("Failed to read patcher response chunk")
              /\ UNCHANGED <<fs, events, idx, current, body, partial, observed, obsAt>>
           \/ \* Some(chunk)
              /\ body # <<>>
              /\ \/ /\ Fail("Failed to write patcher response chunk to file")
                    /\ UNCHANGED <<fs, body>>
                 \/ /\ fs' = WriteAll(fs, patcher_path, Head(body))
                    /\ body' = Tail(body)
                    /\ UNCHANGED <<pc, err, faults>>
              /\ UNCHANGED <<events, idx, current, partial, observed, obsAt>>
           \/ \* None: the body has ended
              /\ body = <<>>
              /\ current' = Advance(current)
              /\ events' = SendEvent(events, total, current', "Downloading")
              /\ partial' = partial \ {patcher_path}
              /\ idx' = idx + 1
              /\ pc' = AfterEntry(idx)
              /\ UNCHANGED <<fs, err, body, faults, observed, obsAt>>
    /\ UNCHANGED <<manifest, tmpDir, cancelled, logs, changed, mvIdx,
                   unreadable, requested, created, removeAttempts, evAtRemove,
                   etagCalls, refused, fs0>>

\* the slip of honouring the cancellation after the download as well
SendPatchingUnlessCancelled ==
    /\ pc = "dl_ok"
    /\ IF cancelled
       THEN pc' = "cleanup" /\ events' = events
       ELSE /\ events' = Append(events, [total |-> 0, current |-> 0,
                                         state |-> "Patching"])
            /\ pc' = IF changed = <<>> THEN "set_etag" ELSE "moving"
    /\ UNCHANGED <<manifest, fs, tmpDir, cancelled, logs, err, changed, idx,
                   current, body, mvIdx, faults, unreadable, partial,
                   requested, observed, obsAt, created, removeAttempts,
                   evAtRemove, etagCalls, refused, fs0>>

\* patch_internal(), lines 190-192: the downloader returned Ok(())
SendPatching ==
    /\ pc = "dl_ok"
    /\ events' = SendEvent(events, 0, 0, "Patching")
    /\ pc' = IF changed = <<>> THEN "set_etag" ELSE "moving"
    /\ UNCHANGED <<manifest, fs, tmpDir, cancelled, logs, err, dlVars, faults,
                   ghostVars>>

\* fs::rename(source, target) of a file that exists
Rename(f, source, target) ==
    (target :> f[source]) @@ [l \in DOMAIN f \ {source} |-> f[l]]

\* move_changed_paths(), lines 153-164: one pass of the loop
MoveStep ==
    /\ pc = "moving"
    /\ LET path == changed[mvIdx]
           source_path == Join(TmpFolder, path)
           target_path == Join(GameFolder, path)
       IN  \/ /\ Fail("Failed to create target file parent")
              /\ UNCHANGED <<fs, mvIdx, partial>>
           \/ /\ Fail("Failed to move patched file to game folder")
              /\ UNCHANGED <<fs, mvIdx, partial>>
           \/ \* the rename fails by itself: nothing is staged at source_path
              /\ source_path \notin DOMAIN fs
              /\ err' = "Failed to move patched file to game folder"
              /\ pc' = "failed"
              /\ UNCHANGED <<fs, mvIdx, partial, faults>>
           \/ /\ source_path \in DOMAIN fs
              /\ fs' = Rename(fs, source_path, target_path)
              /\ partial' = IF source_path \in partial
                            THEN (partial \ {source_path}) \cup {target_path}
                            ELSE partial \ {source_path, target_path}
              /\ mvIdx' = mvIdx + 1
              /\ pc' = IF mvIdx >= Len(changed) THEN "set_etag" ELSE "moving"
              /\ UNCHANGED <<err, faults>>
    /\ UNCHANGED <<manifest, tmpDir, cancelled, events, logs, changed, idx,
                   current, body, unreadable, requested, observed, obsAt,
                   created, removeAttempts, evAtRemove, etagCalls, refused, fs0>>

\* the slip of opening the marker without .truncate(true)
EtagOpenKeep(f, loc) == IF loc \in DOMAIN f THEN f ELSE (loc :> <<>>) @@ f

\* set_etag's OpenOptions: write, truncate, create (lines 234-239)
EtagOpen(f, loc) == OpenTruncate(f, loc)

\* write_all(etag.as_bytes()) on the file just opened: from offset 0, over
\* whatever the file holds
WriteFromStart(f, loc, bytes) ==
    [f EXCEPT ![loc] = bytes \o SubSeq(@, Len(bytes) + 1, Len(@))]

\* get_etag(game_folder): the marker's content, "" if it cannot be read
GetEtag(f, readable) ==
    IF LocEtag \in DOMAIN f /\ readable THEN f[LocEtag] ELSE <<>>

\* set_etag(game_folder, etag), lines 233-243, called at line 194
SetEtag ==
    /\ pc = "set_etag"
    /\ etagCalls' = etagCalls + 1
    /\ LET file == Join(GameFolder, ETAG_FILE)
       IN  \/ /\ Fail("Failed to open patcher etag file")
              /\ UNCHANGED fs
           \/ \* opened (and truncated), then write_all fails
              /\ Fail("Failed to write to patcher etag file")
              /\ fs' = EtagOpen(fs, file)
           \/ /\ fs' = WriteFromStart(EtagOpen(fs, file), file, NewEtag)
              /\ pc' = "done_evt"
              /\ UNCHANGED <<err, faults>>
    /\ UNCHANGED <<manifest, tmpDir, cancelled, events, logs, dlVars,
                   unreadable, partial, requested, observed, obsAt, created,
                   removeAttempts, evAtRemove, refused, fs0>>

\* patch_internal(), lines 195-197
SendDone ==
    /\ pc = "done_evt"
    /\ events' = SendEvent(events, 0, 0, "Done")
    /\ pc' = "cleanup"
    /\ UNCHANGED <<manifest, fs, tmpDir, cancelled, logs, err, dlVars, faults,
                   ghostVars>>

\* the slip of returning from patch() right after reporting the error
ReportErrorAndReturn ==
    /\ pc = "failed"
    /\ logs' = Append(logs, err)
    /\ events' = Append(events, [total |-> 0, current |-> 0, state |-> "Error"])
    /\ pc' = "returned"
    /\ UNCHANGED <<manifest, fs, tmpDir, cancelled, err, changed, idx, current,
                   body, mvIdx, faults, unreadable, partial, requested,
                   observed, obsAt, created, removeAttempts, evAtRemove,
                   etagCalls, refused, fs0>>

\* patch(), lines 214-226: patch_internal returned Err(error)
ReportError ==
    /\ pc = "failed"
    /\ logs' = Append(logs, err)
    /\ events' = SendErrorEvent(events)
    /\ pc' = "cleanup"
    /\ UNCHANGED <<manifest, fs, tmpDir, cancelled, err, dlVars, faults,
                   ghostVars>>

\* fs::remove_dir_all(dir) succeeding: dir and everything below it is gone
RemoveDirAll(f, dir) == [l \in {k \in DOMAIN f : ~Under(k, dir)} |-> f[l]]

\* patch(), lines 227-230
Cleanup ==
    /\ pc = "cleanup"
    /\ removeAttempts' = removeAttempts + 1
    /\ evAtRemove' = Len(events)
    /\ pc' = "returned"
    /\ \/ /\ fs' = RemoveDirAll(fs, TmpFolder)
          /\ tmpDir' = FALSE
          /\ UNCHANGED <<events, logs, faults>>
       \/ /\ MayFail
          /\ faults' = faults + 1
          /\ logs' = Append(logs, "Failed to delete temp patcher directory")
          /\ events' = SendErrorEvent(events)
          /\ UNCHANGED <<fs, tmpDir>>
    /\ UNCHANGED <<manifest, cancelled, err, dlVars, unreadable, partial,
                   requested, observed, obsAt, created, etagCalls, refused, fs0>>

\* the steps of patch()
Run ==
    \/ CreateStaging
    \/ SendChecking
    \/ Diff
    \/ DlSend
    \/ DlChunk
    \/ SendPatching
    \/ MoveStep
    \/ SetEtag
    \/ SendDone
    \/ ReportError
    \/ Cleanup

Next == Run \/ Cancel

Spec == Init /\ [][Next]_vars

\* the runtime keeps polling the task, and every request, read and file
\* operation ends (with a result or an error)
FairSpec == Spec /\ WF_vars(Run)

\* inputs of the liveness check: an up-to-date line, two out-of-date lines
\* (one below a directory named like the staging directory), a malformed line
LiveLines ==
    { <<"b", "c", TAB, "a">>,
      <<"d", TAB, "b">>,
      <<"e", TAB, "tmp", SLASH, "a">>,
      <<"b", "c", "a">> }

LiveTrees ==
    { << >>,
      (LocA :> <<1>>) @@ (LocTmpA :> <<0>>) @@ (LocEtag :> OldEtag) }

InitLive ==
    /\ Init
    /\ manifest \in SeqsUpTo(LiveLines, MaxLines)
    /\ fs \in LiveTrees

\* the same run over the smaller input space, with the scheduling's fairness
LiveSpec == InitLive /\ [][Next]_vars /\ WF_vars(Run)

(* ------------------------ vocabulary of the claims --------------------- *)

\* the indices of the events with the given state
EventsOf(state) == {i \in 1..Len(events) : events[i].state = state}

\* patch_internal has got past get_changed_paths
PastDiff == created /\ pc \notin {"start", "internal", "checking"}

\* the errors download_changed_paths returns
DownloadErrors ==
    { "Patch server request failed",
      "Failed to create temp file parent",
      "Failed to open temp file",
      "Failed to read patcher response chunk",
      "Failed to write patcher response chunk to file" }

ParseError == "Failed to parse patcher server response"

\* download_changed_paths has returned Ok(()) at its last line, line 145
DownloadCompleted ==
    /\ PastDiff
    /\ pc \notin {"dl_send", "dl_chunk"}
    /\ err \notin DownloadErrors \cup {ParseError}
    /\ observed = "none"

\* the number of tabs of a manifest line
TabCount(line) == Cardinality({i \in 1..Len(line) : line[i] = TAB})

(* -------------------------------- C1 ---------------------------------- *)

\* C1: once the downloader has observed the cancellation (at the request or
\* at a chunk read), and nothing else fails, the run emits no Error event.
C1_NoErrorAfterCancel ==
    (observed # "none" /\ faults = 0)
        => \A i \in (obsAt + 1)..Len(events) : events[i].state # "Error"

(* -------------------------------- C2 ---------------------------------- *)

\* C2: no file whose body was not streamed to its end is ever found outside
\* the staging directory.
C2_NoPartialOutsideStaging == \A l \in partial : Under(l, TmpFolder)

(* -------------------------------- C3 ---------------------------------- *)

\* the run started with nothing below game_folder/tmp
FreshStart == \A l \in DOMAIN fs0 : ~Under(l, TmpFolder)

\* C3: set_etag is executed only if every ChangeSet entry was downloaded
\* completely and then moved (stated here for the runs that start without
\* left-over staged files and in which nothing fails); otherwise the marker
\* file is as before the run.
C3_EtagOnlyAfterFullPatch ==
    /\ (etagCalls > 0 /\ FreshStart /\ faults = 0)
         => (current = Len(changed) /\ mvIdx = Len(changed) + 1)
    /\ etagCalls = 0 =>
         /\ (LocEtag \in DOMAIN fs) = (LocEtag \in DOMAIN fs0)
         /\ LocEtag \in DOMAIN fs => fs[LocEtag] = fs0[LocEtag]

(* -------------------------------- C4 ---------------------------------- *)

\* the removal has been attempted, once, as the last thing patch() did: the
\* pipeline's events all precede it, and only the report of the removal's
\* own failure can follow
RemovedOnceAtEnd ==
    /\ removeAttempts = 1
    /\ pc = "returned"
    /\ Len(events) \in {evAtRemove, evAtRemove + 1}
    /\ Len(events) > evAtRemove =>
         /\ events[Len(events)].state = "Error"
         /\ logs[Len(logs)] = "Failed to delete temp patcher directory"

C4_Safe ==
    /\ removeAttempts <= 1
    /\ removeAttempts = 1 => RemovedOnceAtEnd
    /\ (pc = "returned" /\ created) => removeAttempts = 1
    /\ (created /\ pc # "returned") => removeAttempts = 0

\* C4: in every run whose staging directory was created, whatever the outcome
\* of the pipeline, removal of the staging directory is eventually attempted,
\* exactly once, after the pipeline's last event and before patch() returns.
C4_GuaranteedCleanup == []C4_Safe /\ (created ~> RemovedOnceAtEnd)

\* a failed pipeline whose staging directory removal has been attempted
C4_Witness ==
    /\ pc = "returned"
    /\ created
    /\ err # ""
    /\ removeAttempts = 1

(* -------------------------------- C5 ---------------------------------- *)

PhaseRank(state) ==
    CASE state = "Checking" -> 1
      [] state = "Downloading" -> 2
      [] state = "Patching" -> 3
      [] state = "Done" -> 4
      [] OTHER -> 0

\* event b may directly follow event a
MayFollow(a, b) ==
    /\ a.state \notin {"Done", "Error"}
    /\ \/ b.state = "Error"
       \/ PhaseRank(b.state) = PhaseRank(a.state) + 1
       \/ a.state = "Downloading" /\ b.state = "Downloading"

\* C5: the events of a run go Checking, Downloading, Patching, Done, nothing
\* skipped or revisited; Error may follow any phase; nothing follows a Done or
\* an Error.
C5_StrictPhaseOrder ==
    /\ events # <<>> => events[1].state \in {"Checking", "Error"}
    /\ \A i \in 1..(Len(events) - 1) : MayFollow(events[i], events[i + 1])

(* -------------------------------- C6 ---------------------------------- *)

\* C6: an uncancelled run that has returned emitted either one Done and no
\* Error, or exactly one Error and no Done.
C6_DoneOrOneError ==
    (pc = "returned" /\ ~cancelled)
        => \/ Cardinality(EventsOf("Done")) = 1 /\ EventsOf("Error") = {}
           \/ Cardinality(EventsOf("Error")) = 1 /\ EventsOf("Done") = {}

(* -------------------------------- C7 ---------------------------------- *)

\* every line has exactly one tab
WellFormed(m) == \A i \in 1..Len(m) : TabCount(m[i]) = 1

\* the position of the tab of a well-formed line
TabAt(line) == CHOOSE i \in 1..Len(line) : line[i] = TAB

\* the digest a well-formed line states
EntryDigest(line) == SubSeq(line, 1, TabAt(line) - 1)

\* the path a well-formed line states, made relative to the tree
EntryPath(line) ==
    LET raw == SubSeq(line, TabAt(line) + 1, Len(line))
        lead == {k \in 0..Len(raw) : \A j \in 1..k : raw[j] = SLASH}
        n == CHOOSE k \in lead : \A k2 \in lead : k2 <= k
    IN  SubSeq(raw, n + 1, Len(raw))

\* the local file of the line is absent, unreadable (in unread), or of
\* another digest
NeedsUpdateWith(line, unread) ==
    LET loc == Components(EntryPath(line))
    IN  \/ loc \notin DOMAIN fs0
        \/ loc \in unread
        \/ LowerHex(Sha256(fs0[loc])) # EntryDigest(line)

\* the manifest's path sequence filtered by NeedsUpdateWith, in manifest order
ExpectedChangeSetWith(unread) ==
    LET NeedsUpdate(line) == NeedsUpdateWith(line, unread)
        kept == SelectSeq(manifest, NeedsUpdate)
    IN  [i \in 1..Len(kept) |-> EntryPath(kept[i])]

\* the same for the read failures of this run
ExpectedChangeSet == ExpectedChangeSetWith(unreadable)

\* C7: for a well-formed manifest, get_changed_paths returns exactly the
\* entries whose local file is absent, unreadable or of a different digest,
\* in manifest order.
C7_ChangeSetIsFilteredManifest ==
    (PastDiff /\ WellFormed(manifest))
        => /\ err # ParseError
           /\ changed = ExpectedChangeSet

\* a two-line manifest with a leading '/' of which one line is kept, one dropped
C7_Witness ==
    /\ PastDiff
    /\ WellFormed(manifest)
    /\ Len(manifest) = 2
    /\ Len(changed) = 1
    /\ \E i \in 1..2 : SLASH \in {manifest[i][j] : j \in 1..Len(manifest[i])}

(* -------------------------------- C8 ---------------------------------- *)

\* C8: a manifest with a line that has not exactly one tab fails to parse:
\* no ChangeSet, an Error, and no download request.
C8_NotOneTabFailsParse ==
    (PastDiff /\ ~WellFormed(manifest))
        => /\ err = ParseError
           /\ changed = <<>>
           /\ requested = <<>>
           /\ pc \notin {"failed"} => EventsOf("Error") # {}

(* -------------------------------- C9 ---------------------------------- *)

\* the events of the given state, in the order emitted
EventSeqOf(state) ==
    LET Is(e) == e.state = state
    IN  SelectSeq(events, Is)

\* Downloading events of a download of n files that ran to its end: the one
\* patch_internal emits before the download, then the downloader's n
ExpectedDownloading(n) ==
    <<PatcherEvent(n, 0, "Downloading")>>
        \o [i \in 1..n |-> PatcherEvent(n, i, "Downloading")]

\* the body of the response to the request for entry i
ResponseBody(i) == IF i \in refused THEN ErrorBody ELSE Served(changed[i])

\* the downloader emits an event exactly when entry idx has been written in
\* full: the staged file holds the whole body of the response for changed[idx]
EmitsAfterFullFile ==
    (pc = "dl_chunk" /\ events' # events)
        => /\ fs'[Join(TmpFolder, changed[idx])] = ResponseBody(idx)
           /\ events' = Append(events,
                               PatcherEvent(Len(changed), idx, "Downloading"))

\* C9: a download of N entries that is neither cancelled nor failing emits
\* exactly N Downloading events, one after each fully written file, in
\* ChangeSet order, with current = 1..N and total = N.
C9_DownloadingEvents ==
    /\ [](DownloadCompleted
            => EventSeqOf("Downloading") = ExpectedDownloading(Len(changed)))
    /\ [][EmitsAfterFullFile]_vars

\* a download of two files that ran to its end
C9_Witness ==
    /\ DownloadCompleted
    /\ Len(changed) = 2
    /\ current = 2

(* -------------------------------- C10 --------------------------------- *)

\* C10: after a run that emitted Done (stated here for the runs in which
\* nothing failed and nobody cancelled), every ChangeSet path is at its
\* target location with the content the remote served, and the staging
\* directory is gone.
C10_SuccessInstallsAll ==
    (pc = "returned" /\ EventsOf("Done") # {} /\ faults = 0 /\ ~cancelled)
        => /\ \A i \in 1..Len(changed) :
                /\ Join(GameFolder, changed[i]) \in DOMAIN fs
                /\ fs[Join(GameFolder, changed[i])] = Served(changed[i])
           /\ ~tmpDir

(* -------------------------------- C11 --------------------------------- *)

\* the target locations of the ChangeSet
ChangeSetTargets == {Join(GameFolder, changed[i]) : i \in 1..Len(changed)}

\* C11: every file the tree held before the run, whose path is neither in the
\* ChangeSet nor the marker file, is still there with the same content after
\* the run, also when it lies in a directory named like the staging directory.
C11_UnrelatedFilesKept ==
    pc = "returned"
        => \A l \in DOMAIN fs0 \ (ChangeSetTargets \cup {LocEtag}) :
              /\ l \in DOMAIN fs
              /\ fs[l] = fs0[l]

(* -------------------------------- C16 --------------------------------- *)

\* C16: if the staging directory cannot be created, the run emits exactly one
\* Error event and nothing else, diffs, downloads, moves and writes nothing,
\* and does not attempt to remove the staging directory.
C16_CreateFailureEndsRun ==
    (pc # "start" /\ ~created)
        => /\ pc = "returned"
           /\ events = <<PatcherEvent(0, 0, "Error")>>
           /\ logs = <<"Failed to create temp patcher directory">>
           /\ changed = <<>>
           /\ requested = <<>>
           /\ fs = fs0
           /\ etagCalls = 0
           /\ removeAttempts = 0

\* a run whose staging directory could not be created
C16_Witness == pc = "returned" /\ ~created /\ Len(manifest) = 2

(* -------------------------------- C18 --------------------------------- *)

\* C18: when the Checking event is emitted the staging directory holds no
\* file, whatever the tree held before the run.
C18_StagingFreshAtChecking ==
    (pc = "checking" /\ EventsOf("Checking") # {})
        => \A l \in DOMAIN fs : ~Under(l, TmpFolder)

(* -------------------------------- C12 --------------------------------- *)

\* C12: if the remote answers the request for an entry with a non-success
\* status, the download aborts: the run emits Error, that body is never
\* installed, no later entry is requested, and the marker is not written
\* (stated here for the runs nobody cancels).
C12_NonSuccessAborts ==
    ~cancelled =>
        \A i \in refused :
            /\ etagCalls = 0
            /\ Len(requested) = i
            /\ pc = "returned" => EventsOf("Error") # {}
            /\ LET target == Join(GameFolder, changed[i])
               IN  target \in DOMAIN fs
                       => (target \in DOMAIN fs0 /\ fs[target] = fs0[target])

(* -------------------------------- C13 --------------------------------- *)

\* set_etag has returned Ok(()) in this run
EtagWasSet == pc = "done_evt" \/ EventsOf("Done") # {}

\* C13: after a successful set_etag(tree, v), get_etag returns exactly v,
\* also when a longer marker was stored before; get_etag on a tree whose
\* marker is absent or unreadable returns the empty string.
C13_MarkerRoundTrip ==
    /\ EtagWasSet => GetEtag(fs, TRUE) = NewEtag
    /\ GetEtag(fs, FALSE) = <<>>
    /\ LocEtag \notin DOMAIN fs => GetEtag(fs, TRUE) = <<>>

\* a marker written over a longer one
C13_Witness ==
    /\ EtagWasSet
    /\ LocEtag \in DOMAIN fs0
    /\ NewEtag # <<>>
    /\ Len(NewEtag) < Len(fs0[LocEtag])

(* -------------------------------- C14 --------------------------------- *)

RECURSIVE SumLen(_, _)
\* the bytes of the files of f at the locations L
SumLen(f, L) ==
    IF L = {} THEN 0
    ELSE LET l == CHOOSE x \in L : TRUE
         IN  Len(f[l]) + SumLen(f, L \ {l})

\* the bytes held by the files below the staging directory
StagedBytes == SumLen(fs, {l \in DOMAIN fs : Under(l, TmpFolder)})

\* the number of Downloading events so far
DownloadingCount == Cardinality(EventsOf("Downloading"))

\* from the step that observes the cancellation on: no request, no byte more
\* in the staging directory, no Downloading event
QuietAfterObserved ==
    observed' # "none"
        => /\ requested' = requested
           /\ StagedBytes' <= StagedBytes
           /\ DownloadingCount' = DownloadingCount

\* C14: once the downloader has observed the cancellation, at the request or
\* at a chunk read of entry i, it is left: no request is issued for a later
\* entry, no further byte is written to staging, no further Downloading event
\* is emitted.
C14_CancelStopsDownloads ==
    /\ [](observed # "none" => pc \notin {"dl_send", "dl_chunk"})
    /\ [][QuietAfterObserved]_vars

\* a run cancelled at the first of two entries, after it returned
C14_Witness ==
    /\ observed # "none"
    /\ pc = "returned"
    /\ Len(changed) = 2
    /\ idx = 1
    /\ Len(requested) <= 1

(* -------------------------------- C15 --------------------------------- *)

\* a diff that runs while the token is cancelled computes the whole ChangeSet
\* and announces it
DiffIgnoresCancel ==
    (pc = "checking" /\ cancelled /\ WellFormed(manifest))
        => /\ changed' = ExpectedChangeSetWith(unreadable')
           /\ events' = Append(events,
                               PatcherEvent(Len(changed'), 0, "Downloading"))

RECURSIVE StageAll(_, _)
\* the tree after every path of paths was downloaded in full into staging
StageAll(f, paths) ==
    IF paths = <<>> THEN f
    ELSE StageAll((Join(TmpFolder, Head(paths)) :> Served(Head(paths))) @@ f,
                  Tail(paths))

RECURSIVE MoveAll(_, _)
\* the installer run to its end or to its first failure, nothing else failing
MoveAll(f, paths) ==
    IF paths = <<>> THEN [ok |-> TRUE, tree |-> f]
    ELSE LET source == Join(TmpFolder, Head(paths))
             target == Join(GameFolder, Head(paths))
         IN  IF source \notin DOMAIN f THEN [ok |-> FALSE, tree |-> f]
             ELSE MoveAll(Rename(f, source, target), Tail(paths))

\* what a run without any cancellation and any failure leaves and emits once
\* its download has ended: the moves, the marker, Done (or the Error of a move
\* that cannot succeed), the cleanup
UncancelledOutcome ==
    LET moved == MoveAll(StageAll(fs0, changed), changed)
        before == <<PatcherEvent(0, 0, "Checking")>>
                      \o ExpectedDownloading(Len(changed))
                      \o <<PatcherEvent(0, 0, "Patching")>>
    IN  IF moved.ok
        THEN [tree |-> RemoveDirAll((LocEtag :> NewEtag) @@ moved.tree, TmpFolder),
              events |-> Append(before, PatcherEvent(0, 0, "Done"))]
        ELSE [tree |-> RemoveDirAll(moved.tree, TmpFolder),
              events |-> Append(before, PatcherEvent(0, 0, "Error"))]

\* C15: a cancellation signalled during Checking does not interrupt the diff
\* (the whole ChangeSet is computed and Downloading with total = |ChangeSet|
\* is emitted), and one the downloader did not observe changes nothing: the
\* moves, the marker write and Done occur as in the run without the signal.
C15_CancelOnlyInDownloader ==
    /\ [][DiffIgnoresCancel]_vars
    /\ []((pc = "returned" /\ DownloadCompleted /\ faults = 0)
            => (fs = UncancelledOutcome.tree /\ events = UncancelledOutcome.events))

\* a cancelled run whose downloader did not see the signal and that installed
\* its ChangeSet and ended with Done
C15_Witness ==
    /\ pc = "returned"
    /\ cancelled
    /\ DownloadCompleted
    /\ faults = 0
    /\ changed # <<>>
    /\ EventsOf("Done") # {}

(* -------------------------------- C17 --------------------------------- *)

\* the errors move_changed_paths returns
MoveErrors ==
    { "Failed to create target file parent",
      "Failed to move patched file to game folder" }

\* the run is past a failed move of entry mvIdx
MoveFailed == err \in MoveErrors /\ pc \in {"failed", "cleanup", "returned"}

\* the target paths of the entries moved before the failing one
MovedTargets == {Join(GameFolder, changed[i]) : i \in 1..(mvIdx - 1)}

\* C17: if moving the k-th entry fails, entries 1..k-1 stay installed at their
\* target paths, the entries after k are never moved (their targets are as
\* they were before the run; a target inside the staging directory is left
\* to the first clause), the marker is not written, no Done is emitted and
\* the run emits Error.  (k is mvIdx: only a successful move advances it.)
C17_InstallFailFast ==
    (MoveFailed /\ ~cancelled)
        => /\ MovedTargets \subseteq DOMAIN fs
           /\ \A i \in (mvIdx + 1)..Len(changed) :
                 LET target == Join(GameFolder, changed[i])
                 IN  (target \notin MovedTargets /\ ~Under(target, TmpFolder))
                        => /\ target \in DOMAIN fs <=> target \in DOMAIN fs0
                           /\ target \in DOMAIN fs => fs[target] = fs0[target]
           /\ etagCalls = 0
           /\ EventsOf("Done") = {}
           /\ pc = "returned" => EventsOf("Error") # {}

(* -------------------------------- C19 --------------------------------- *)

\* the remote serves, for every manifest line, content whose digest is the
\* line's digest
RemoteMatchesManifest ==
    /\ WellFormed(manifest)
    /\ \A i \in 1..Len(manifest) :
          EntryDigest(manifest[i]) = LowerHex(Sha256(Served(EntryPath(manifest[i]))))

\* the ChangeSet of a second run on the tree this run left behind
ReDiff == GetChangedPaths(manifest, fs, {})

\* C19: with a remote that matches the manifest, re-diffing after a failed
\* install excludes every entry already moved and contains every entry not yet
\* moved, and re-diffing after Done yields the empty ChangeSet (stated for the
\* runs that start without a tmp directory, are not cancelled and get no
\* non-success response).
C19_RetryConverges ==
    (pc = "returned" /\ RemoteMatchesManifest /\ FreshStart /\ ~cancelled
        /\ refused = {})
        => /\ ReDiff.ok
           /\ EventsOf("Done") # {} => ReDiff.paths = <<>>
           /\ err \in MoveErrors
                 => /\ \A i \in 1..(mvIdx - 1) :
                          \A j \in 1..Len(ReDiff.paths) : ReDiff.paths[j] # changed[i]
                    /\ \A i \in mvIdx..Len(changed) :
                          \E j \in 1..Len(ReDiff.paths) : ReDiff.paths[j] = changed[i]

(* -------------------------------- C20 --------------------------------- *)

\* the errors a run can end with before it emits Patching
EarlyErrors == {ParseError} \cup DownloadErrors

\* the files outside the staging directory, the marker among them
LiveFiles(f) == {l \in DOMAIN f : ~Under(l, TmpFolder)}

\* C20: a run that fails before the Patching event leaves every file outside
\* the staging directory, the marker included, as it was before the run.
C20_EarlyFailureLeavesInstall ==
    (pc = "returned" /\ err \in EarlyErrors /\ EventsOf("Patching") = {})
        => /\ LiveFiles(fs) = LiveFiles(fs0)
           /\ \A l \in LiveFiles(fs) : fs[l] = fs0[l]

====
